---- MODULE Spec2Model ----
(***************************************************************************)
(* Model of sbi/utils/conditional_density_utils.py.                        *)
(*                                                                         *)
(* The module is a library of functions over tensors plus three adapter    *)
(* classes.  A function is modelled as a call: the initial state draws the *)
(* arguments (args), the action applies the function and stores what it    *)
(* returns (ret).  The adapters are modelled as objects with fields.       *)
(*                                                                         *)
(* Numbers.  Parameter values (theta, limits, grid points) are integers of *)
(* a fixed-point scale.  A float that can be infinite or not-a-number is a *)
(* record [k, v]: k is "fin", "ninf", "pinf" or "nan" and v the value of   *)
(* a finite one.  Probabilities produced by torch.exp are fixed-point with *)
(* ExpRange fractional bits (1.0 is 2^ExpRange); an argument below         *)
(* -ExpRange underflows to 0, as exp does below about -104 in float32.     *)
(* Indices (dimensions, grid indices, rows) are 0-based as in the source.  *)
(***************************************************************************)
EXTENDS Integers, Sequences, FiniteSets, TLC

VARIABLES
    pc,             \* "call" before a function is applied, "done" after
    args,           \* the arguments of the function call
    ret,            \* what the function returned
    heap,           \* the tensors the adapters hold or work on, by reference
    dims_to_sample, \* the adapters' dims_to_sample list
    transform,      \* the transform RestrictedTransformForConditional wraps
    x_o,            \* potential_fn._x_o of the wrapped potential
    last_set,       \* history: the observation last set
    call            \* the last adapter method called and its outcome

fnVars == <<pc, args, ret>>

adapterVars == <<heap, dims_to_sample, transform, x_o, last_set, call>>

vars == <<pc, args, ret, heap, dims_to_sample, transform, x_o, last_set, call>>

\* No adapter exists in the function-call specifications.
NoAdapter ==
    /\ heap = <<>>
    /\ dims_to_sample = <<>>
    /\ transform = [kind |-> "none"]
    /\ x_o = [none |-> TRUE, batch |-> 0, data |-> 0]
    /\ last_set = [none |-> TRUE, batch |-> 0, data |-> 0]
    /\ call = [op |-> "none"]

\* ------------------------------------------------------------------ bounds
\* Number of parameter dimensions (dim_theta).
NDim == 3
\* Largest grid resolution.
MaxRes == 3
\* Exponent range of the modelled float.
ExpRange == 8
\* Largest batch (of conditions, of theta rows).
MaxBatch == 2
\* Largest number of mixture components.
MaxMix == 2

Dims == 0 .. (NDim - 1)

\* ------------------------------------------------------------ arithmetic
Abs(x) == IF x < 0 THEN -x ELSE x

RECURSIVE Pow2(_)
Pow2(n) == IF n <= 0 THEN 1 ELSE 2 * Pow2(n - 1)

\* Sum of f[i] for i in 0 .. n-1.
RECURSIVE SumTo(_, _)
SumTo(f, n) == IF n <= 0 THEN 0 ELSE f[n - 1] + SumTo(f, n - 1)

RECURSIVE SetMax(_)
SetMax(S) ==
    LET x == CHOOSE y \in S : TRUE
    IN  IF S = {x} THEN x
        ELSE LET m == SetMax(S \ {x}) IN IF x > m THEN x ELSE m

Fin(n) == [k |-> "fin", v |-> n]
NegInf == [k |-> "ninf", v |-> 0]
PosInf == [k |-> "pinf", v |-> 0]
NaN == [k |-> "nan", v |-> 0]

\* a - b on floats: inf - inf of the same sign is not a number.
Sub(a, b) ==
    IF a.k = "nan" \/ b.k = "nan" THEN NaN
    ELSE IF a.k = "fin" /\ b.k = "fin" THEN Fin(a.v - b.v)
    ELSE IF a.k = "fin" THEN (IF b.k = "ninf" THEN PosInf ELSE NegInf)
    ELSE IF b.k = "fin" THEN a
    ELSE IF a.k = b.k THEN NaN
    ELSE a

\* torch.max over all elements: a non-number wins, then the largest.
TorchMax(S) ==
    IF \E x \in S : x.k = "nan" THEN NaN
    ELSE IF \E x \in S : x.k = "pinf" THEN PosInf
    ELSE IF \E x \in S : x.k = "fin"
         THEN Fin(SetMax({x.v : x \in {y \in S : y.k = "fin"}}))
    ELSE NegInf

\* torch.exp: exp(0) is exactly 1.0, exp(-inf) is 0, small arguments underflow.
TorchExp(a) ==
    IF a.k = "nan" THEN NaN
    ELSE IF a.k = "pinf" THEN PosInf
    ELSE IF a.k = "ninf" THEN Fin(0)
    ELSE IF a.v > ExpRange THEN PosInf
    ELSE IF a.v < -ExpRange THEN Fin(0)
    ELSE Fin(Pow2(ExpRange + a.v))

One == Fin(Pow2(ExpRange))

\* ---- exact rationals [k, n, d]: k = "fin" is n/d with d > 0 in lowest
\* terms; a division by zero gives "inf" (x/0, x # 0) or "nan" (0/0).
RECURSIVE Gcd(_, _)
Gcd(a, b) == IF b = 0 THEN a ELSE Gcd(b, a % b)

RNaN == [k |-> "nan", n |-> 0, d |-> 1]
RInf == [k |-> "inf", n |-> 0, d |-> 1]

Rat(n, d) ==
    IF d = 0 THEN (IF n = 0 THEN RNaN ELSE RInf)
    ELSE LET g == Gcd(Abs(n), Abs(d))
             s == IF d < 0 THEN -1 ELSE 1
         IN  [k |-> "fin", n |-> (s * n) \div g, d |-> (s * d) \div g]

RInt(n) == Rat(n, 1)

RMul(a, b) ==
    IF a.k = "nan" \/ b.k = "nan" THEN RNaN
    ELSE IF a.k = "inf" \/ b.k = "inf"
         THEN (IF (a.k = "fin" /\ a.n = 0) \/ (b.k = "fin" /\ b.n = 0)
               THEN RNaN ELSE RInf)
    ELSE Rat(a.n * b.n, a.d * b.d)

RDiv(a, b) ==
    IF a.k = "nan" \/ b.k = "nan" THEN RNaN
    ELSE IF a.k = "inf" THEN (IF b.k = "inf" THEN RNaN ELSE RInf)
    ELSE IF b.k = "inf" THEN RInt(0)
    ELSE Rat(a.n * b.d, a.d * b.n)

RAdd(a, b) ==
    IF a.k = "nan" \/ b.k = "nan" THEN RNaN
    ELSE IF a.k = "inf" \/ b.k = "inf" THEN RInf
    ELSE Rat(a.n * b.d + b.n * a.d, a.d * b.d)

RSub(a, b) ==
    IF a.k = "nan" \/ b.k = "nan" THEN RNaN
    ELSE IF a.k = "inf" /\ b.k = "inf" THEN RNaN
    ELSE IF a.k = "inf" \/ b.k = "inf" THEN RInf
    ELSE Rat(a.n * b.d - b.n * a.d, a.d * b.d)

\* Sum of the rationals f[i] for i in 0 .. n-1.
RECURSIVE RSumTo(_, _)
RSumTo(f, n) == IF n <= 0 THEN RInt(0) ELSE RAdd(RSumTo(f, n - 1), f[n - 1])

\* Product of the rationals f[i] for i in 0 .. n-1.
RECURSIVE RProdTo(_, _)
RProdTo(f, n) == IF n <= 0 THEN RInt(1) ELSE RMul(RProdTo(f, n - 1), f[n - 1])

\* torch.linspace(start, end, steps): steps = 1 gives [start].
Linspace(start, end, steps) ==
    [i \in 0 .. (steps - 1) |->
        IF steps = 1 THEN start
        ELSE start + ((i * (end - start)) \div (steps - 1))]

\* ------------------------------------------------- eval_conditional_density
\* density.log_prob of one parameter vector: the densities drawn here are
\* -sum_d w[d]*|theta[d]| inside the box |theta[d]| <= support, -inf outside.
LogProb(density, theta) ==
    IF \A d \in Dims : Abs(theta[d]) <= density.support
    THEN Fin(-SumTo([d \in Dims |-> density.w[d] * Abs(theta[d])], NDim))
    ELSE NegInf

\* v.repeat(n): the whole vector v (of length len), n times over.
TorchRepeat(v, len, n) == [k \in 0 .. (len * n - 1) |-> v[k % len]]

\* torch.repeat_interleave(v, n): each element of v, n times in a row.
TorchRepeatInterleave(v, len, n) == [k \in 0 .. (len * n - 1) |-> v[k \div n]]

\* The batch handed to log_prob when dim1 = dim2.
RepeatedCondition1D(condition, dim1, grid1, resolution) ==
    [k \in 0 .. (resolution - 1) |-> [condition EXCEPT ![dim1] = grid1[k]]]

\* The batch handed to log_prob when dim1 # dim2, with the two grid axes
\* exchanged: dim1 repeated element-wise, dim2 tiled.
RepeatedCondition2DExchanged(condition, dim1, dim2, grid1, grid2, resolution) ==
    LET col1 == TorchRepeatInterleave(grid1, resolution, resolution)
        col2 == TorchRepeat(grid2, resolution, resolution)
    IN  [k \in 0 .. (resolution * resolution - 1) |->
            [condition EXCEPT ![dim1] = col1[k], ![dim2] = col2[k]]]

\* The batch handed to log_prob when dim1 # dim2.
RepeatedCondition2D(condition, dim1, dim2, grid1, grid2, resolution) ==
    LET col1 == TorchRepeat(grid1, resolution, resolution)
        col2 == TorchRepeatInterleave(grid2, resolution, resolution)
    IN  [k \in 0 .. (resolution * resolution - 1) |->
            [condition EXCEPT ![dim1] = col1[k], ![dim2] = col2[k]]]

\* torch.reshape(flat, (n, n)), row-major.
Reshape2D(flat, n) ==
    [i \in 0 .. (n - 1) |-> [j \in 0 .. (n - 1) |-> flat[i * n + j]]]

\* All elements of a tensor of the given shape.
Elements(shape, data) ==
    IF Len(shape) = 1 THEN {data[i] : i \in DOMAIN data}
    ELSE {data[i][j] : i \in DOMAIN data, j \in 0 .. (shape[2] - 1)}

\* Element-wise map of a tensor of the given shape.
MapTensor(shape, data, F(_)) ==
    IF Len(shape) = 1 THEN [i \in DOMAIN data |-> F(data[i])]
    ELSE [i \in DOMAIN data |-> [j \in DOMAIN data[i] |-> F(data[i][j])]]

\* exp(log_probs - max(log_probs)) without the subtraction.
ScaleByMaxUnshifted(shape, data) ==
    MapTensor(shape, data, TorchExp)

\* exp(log_probs - max(log_probs)).
ScaleByMax(shape, data) ==
    LET m == TorchMax(Elements(shape, data))
        F(x) == TorchExp(Sub(x, m))
    IN  MapTensor(shape, data, F)

EvalConditionalDensity(a) ==
    LET theta_grid_dim1 ==
            Linspace(a.limits[a.dim1][1] + a.eps_margins1,
                     a.limits[a.dim1][2] - a.eps_margins1, a.resolution)
        theta_grid_dim2 ==
            Linspace(a.limits[a.dim2][1] + a.eps_margins2,
                     a.limits[a.dim2][2] - a.eps_margins2, a.resolution)
        shape == IF a.dim1 = a.dim2 THEN <<a.resolution>>
                 ELSE <<a.resolution, a.resolution>>
        log_probs_on_grid ==
            IF a.dim1 = a.dim2
            THEN LET rc == RepeatedCondition1D(a.condition, a.dim1,
                                               theta_grid_dim1, a.resolution)
                 IN  [k \in DOMAIN rc |-> LogProb(a.density, rc[k])]
            ELSE LET rc == RepeatedCondition2D(a.condition, a.dim1, a.dim2,
                               theta_grid_dim1, theta_grid_dim2, a.resolution)
                 IN  Reshape2D([k \in DOMAIN rc |-> LogProb(a.density, rc[k])],
                               a.resolution)
    IN  [shape |-> shape,
         data |-> IF a.return_raw_log_prob THEN log_probs_on_grid
                  ELSE ScaleByMax(shape, log_probs_on_grid)]

\* The arguments drawn for eval_conditional_density.
GridDensities ==
    {[w |-> w, support |-> s] :
        w \in {[d \in Dims |-> d + 1], [d \in Dims |-> NDim - d]},
        s \in {7, 100}}

GridConditions ==
    {[d \in Dims |-> 1], [d \in Dims |-> IF d = NDim - 1 THEN 9 ELSE 2]}

GridLimits ==
    {[d \in Dims |-> <<-6, 6>>], [d \in Dims |-> <<0, 6 * (d + 1)>>]}

GridArgs ==
    [fn : {"eval_conditional_density"},
     density : GridDensities,
     condition : GridConditions,
     limits : GridLimits,
     dim1 : Dims,
     dim2 : Dims,
     resolution : 1 .. MaxRes,
     eps_margins1 : {0, 1},
     eps_margins2 : {0},
     return_raw_log_prob : BOOLEAN]

InitGrid ==
    /\ pc = "call"
    /\ args \in GridArgs
    /\ ret = [shape |-> <<>>, data |-> <<>>]
    /\ NoAdapter

CallEvalConditionalDensity ==
    /\ pc = "call"
    /\ args.fn = "eval_conditional_density"
    /\ ret' = EvalConditionalDensity(args)
    /\ pc' = "done"
    /\ UNCHANGED <<args, adapterVars>>

NextGrid == CallEvalConditionalDensity

SpecGrid == InitGrid /\ [][NextGrid]_vars

\* ---- claims about eval_conditional_density
\* The grid of dim1, the grid of dim2 and the parameter vector of a grid point.
ClaimGrid1 ==
    Linspace(args.limits[args.dim1][1] + args.eps_margins1,
             args.limits[args.dim1][2] - args.eps_margins1, args.resolution)

ClaimGrid2 ==
    Linspace(args.limits[args.dim2][1] + args.eps_margins2,
             args.limits[args.dim2][2] - args.eps_margins2, args.resolution)

ClaimPoint1(i) == [args.condition EXCEPT ![args.dim1] = ClaimGrid1[i]]

ClaimPoint2(i1, i2) ==
    [args.condition EXCEPT ![args.dim1] = ClaimGrid1[i1],
                           ![args.dim2] = ClaimGrid2[i2]]

GridIdx == 0 .. (args.resolution - 1)

\* The log-probabilities of all grid points, and their maximum.
ClaimGridLogProbs ==
    IF args.dim1 = args.dim2
    THEN {LogProb(args.density, ClaimPoint1(i)) : i \in GridIdx}
    ELSE {LogProb(args.density, ClaimPoint2(i, j)) : i \in GridIdx, j \in GridIdx}

\* What the returned grid holds for a grid point with parameter vector theta.
ClaimCell(theta) ==
    IF args.return_raw_log_prob THEN LogProb(args.density, theta)
    ELSE TorchExp(Sub(LogProb(args.density, theta), TorchMax(ClaimGridLogProbs)))

GridDone == pc = "done" /\ args.fn = "eval_conditional_density"

\* C1 as stated: for dim1 # dim2 the result is a resolution x resolution
\* matrix whose entry [i, j] is the density at the i-th grid point of dim1 and
\* the j-th grid point of dim2; for dim1 = dim2 it is a vector of length
\* resolution whose entry i is the density at the i-th grid point of dim1.
C1_EntryIsDim1RowDim2Col ==
    GridDone =>
        IF args.dim1 = args.dim2
        THEN /\ ret.shape = <<args.resolution>>
             /\ \A i \in GridIdx : ret.data[i] = ClaimCell(ClaimPoint1(i))
        ELSE /\ ret.shape = <<args.resolution, args.resolution>>
             /\ \A i \in GridIdx : \A j \in GridIdx :
                    ret.data[i][j] = ClaimCell(ClaimPoint2(i, j))

\* C1 amended: for dim1 # dim2 the result is a resolution x resolution matrix
\* whose entry [i, j] is the density at the j-th grid point of dim1 and the
\* i-th grid point of dim2 (rows range over dim2, columns over dim1); for
\* dim1 = dim2 it is a vector whose entry i is the density at the i-th grid
\* point of dim1.
C1_EntryIsDim2RowDim1Col ==
    GridDone =>
        IF args.dim1 = args.dim2
        THEN /\ ret.shape = <<args.resolution>>
             /\ DOMAIN ret.data = GridIdx
             /\ \A i \in GridIdx : ret.data[i] = ClaimCell(ClaimPoint1(i))
        ELSE /\ ret.shape = <<args.resolution, args.resolution>>
             /\ DOMAIN ret.data = GridIdx
             /\ \A i \in GridIdx :
                    /\ DOMAIN ret.data[i] = GridIdx
                    /\ \A j \in GridIdx :
                           ret.data[i][j] = ClaimCell(ClaimPoint2(j, i))

\* A 2-D grid that differs from its transpose has been returned.
C1_Witness ==
    /\ GridDone
    /\ args.dim1 # args.dim2
    /\ args.resolution >= 2
    /\ ret.data[0][1] # ret.data[1][0]
    /\ ret.data[0][1] = ClaimCell(ClaimPoint2(1, 0))

\* C9 as stated: for every density whose log_prob is finite or -infinity on
\* the grid, the grid returned with return_raw_log_prob = False has maximum
\* exactly 1.0: the cell with the largest log-probability is 1 and no cell
\* exceeds 1.
C9_MaxIsOne ==
    (GridDone /\ ~args.return_raw_log_prob
        /\ \A x \in ClaimGridLogProbs : x.k \in {"fin", "ninf"}) =>
        /\ TorchMax(Elements(ret.shape, ret.data)) = One
        /\ \A x \in Elements(ret.shape, ret.data) : x.k = "fin" /\ x.v <= One.v

\* C9 amended: the same, for a density whose log_prob is finite on at least
\* one grid point (and finite or -infinity on the others).
C9_MaxIsOneIfSomeFinite ==
    (GridDone /\ ~args.return_raw_log_prob
        /\ (\A x \in ClaimGridLogProbs : x.k \in {"fin", "ninf"})
        /\ (\E x \in ClaimGridLogProbs : x.k = "fin")) =>
        /\ TorchMax(Elements(ret.shape, ret.data)) = One
        /\ \A x \in Elements(ret.shape, ret.data) : x.k = "fin" /\ x.v <= One.v
        /\ IF args.dim1 = args.dim2
           THEN \A i \in GridIdx :
                    LogProb(args.density, ClaimPoint1(i)) = TorchMax(ClaimGridLogProbs)
                        => ret.data[i] = One
           ELSE \A i \in GridIdx : \A j \in GridIdx :
                    LogProb(args.density, ClaimPoint2(j, i)) = TorchMax(ClaimGridLogProbs)
                        => ret.data[i][j] = One

\* A scaled grid with a cell outside the support (0), a cell strictly
\* between 0 and 1, and the maximum cell.
C9_Witness ==
    /\ GridDone
    /\ ~args.return_raw_log_prob
    /\ NegInf \in ClaimGridLogProbs
    /\ Fin(0) \in Elements(ret.shape, ret.data)
    /\ One \in Elements(ret.shape, ret.data)
    /\ \E x \in Elements(ret.shape, ret.data) : x.k = "fin" /\ 0 < x.v /\ x.v < One.v

\* ------------------------------------------------------------ _normalize_probs
\* A tensor of rationals is [shape, data]: shape <<n>> with data[i], or
\* shape <<n, m>> with data[i][j].
Numel(shape) == IF Len(shape) = 1 THEN shape[1] ELSE shape[1] * shape[2]

\* torch.sum over all elements.
TorchSum(t) ==
    IF Len(t.shape) = 1 THEN RSumTo(t.data, t.shape[1])
    ELSE RSumTo([i \in 0 .. (t.shape[1] - 1) |-> RSumTo(t.data[i], t.shape[2])],
                t.shape[1])

\* torch.prod(limits[:, 1] - limits[:, 0]); limits[r] is the row <<lower, upper>>.
LimitsDiff(limits) ==
    RProdTo([r \in DOMAIN limits |-> RInt(limits[r][2] - limits[r][1])],
            Cardinality(DOMAIN limits))

\* probs * len(probs) / limits_diff / sum(probs): the first axis, not numel.
NormalizeProbsByLen(probs, limits) ==
    LET limits_diff == LimitsDiff(limits)
        total == TorchSum(probs)
        F(x) == RDiv(RDiv(RMul(x, RInt(probs.shape[1])), limits_diff), total)
    IN  [shape |-> probs.shape, data |-> MapTensor(probs.shape, probs.data, F)]

\* probs * probs.numel() / limits_diff / torch.sum(probs).
NormalizeProbs(probs, limits) ==
    LET limits_diff == LimitsDiff(limits)
        total == TorchSum(probs)
        F(x) == RDiv(RDiv(RMul(x, RInt(Numel(probs.shape))), limits_diff), total)
    IN  [shape |-> probs.shape, data |-> MapTensor(probs.shape, probs.data, F)]

\* The probability grids drawn: strictly positive, not constant.
ProbVectors(n) ==
    {[shape |-> <<n>>, data |-> [i \in 0 .. (n - 1) |-> RInt(a + b * i + c * (i % 2))]] :
        a \in {1, 2}, b \in {0, 1}, c \in {0, 3}}

ProbMatrices(n) ==
    {[shape |-> <<n, n>>,
      data |-> [i \in 0 .. (n - 1) |-> [j \in 0 .. (n - 1) |->
                    RInt(a + b * i + c * j + e * ((i * j) % 2))]]] :
        a \in {1, 2}, b \in {0, 1}, c \in {0, 2}, e \in {0, 3}}

LimitRows == {<<0, 1>>, <<-1, 2>>, <<1, 3>>}

NormArgs ==
    UNION {
        {[fn |-> "_normalize_probs", probs |-> p, limits |-> [r \in {0} |-> l]] :
            p \in ProbVectors(n), l \in LimitRows}
        \cup
        {[fn |-> "_normalize_probs", probs |-> p,
          limits |-> [r \in {0, 1} |-> IF r = 0 THEN l1 ELSE l2]] :
            p \in ProbMatrices(n), l1 \in LimitRows, l2 \in LimitRows}
        : n \in 1 .. MaxRes}

InitNorm ==
    /\ pc = "call"
    /\ args \in NormArgs
    /\ ret = [shape |-> <<>>, data |-> <<>>]
    /\ NoAdapter

CallNormalizeProbs ==
    /\ pc = "call"
    /\ args.fn = "_normalize_probs"
    /\ ret' = NormalizeProbs(args.probs, args.limits)
    /\ pc' = "done"
    /\ UNCHANGED <<args, adapterVars>>

NextNorm == CallNormalizeProbs

SpecNorm == InitNorm /\ [][NextNorm]_vars

\* ---- claims about _normalize_probs
NormDone == pc = "done" /\ args.fn = "_normalize_probs"

\* The number of grid cells and the product of the per-dimension spans.
ClaimCount ==
    IF Len(args.probs.shape) = 1 THEN args.probs.shape[1]
    ELSE args.probs.shape[1] * args.probs.shape[2]

ClaimVolume ==
    IF DOMAIN args.limits = {0} THEN args.limits[0][2] - args.limits[0][1]
    ELSE (args.limits[0][2] - args.limits[0][1]) * (args.limits[1][2] - args.limits[1][1])

\* C10: for a grid probs of strictly positive entries (a vector with 1-row
\* limits or a matrix with 2-row limits) and limits with lower < upper, the
\* result r of _normalize_probs satisfies sum(r) * volume / count = 1.
C10_NormalizedIntegratesToOne ==
    (NormDone
        /\ (\A x \in Elements(args.probs.shape, args.probs.data) : x.k = "fin" /\ x.n > 0)
        /\ (\A r \in DOMAIN args.limits : args.limits[r][1] < args.limits[r][2])) =>
        /\ ret.shape = args.probs.shape
        /\ RDiv(RMul(TorchSum(ret), RInt(ClaimVolume)), RInt(ClaimCount)) = RInt(1)

\* A non-constant 2-D grid over a volume other than 1 has been normalized,
\* and the normalization changed it.
C10_Witness ==
    /\ NormDone
    /\ Len(args.probs.shape) = 2
    /\ args.probs.shape[1] >= 2
    /\ ClaimVolume > 1
    /\ args.probs.data[0][0] # args.probs.data[1][1]
    /\ ret.data # args.probs.data

\* --------------------------------------------------------- conditional_corrcoeff
\* Python lists (subset, the list of pair coefficients) are sequences; their
\* element at 0-based position a is s[a + 1].  Matrices are 0-based.  The
\* argument subset is [none, list]: none is TRUE for subset=None.

\* _compute_corrcoeff(eval_conditional_density(density, cond, limits, dim1,
\* dim2), limits[[dim1, dim2]]): the Pearson coefficient of the pair under
\* one condition.  The density is given by its table of pair coefficients;
\* the table gives every (condition, dim1, dim2) its own value.
PairCoefficient(density, cond, dim1, dim2) ==
    Rat(density.sign * (1 + dim1 + NDim * dim2 + cond[0]), 8 * NDim)

\* [(dim1, dim2) for dim1 in subset for dim2 in subset if dim1 < dim2]
PairList(subset) ==
    LET n == Len(subset)
        all == [k \in 1 .. (n * n) |->
                   <<subset[((k - 1) \div n) + 1], subset[((k - 1) % n) + 1]>>]
        Lt(pr) == pr[1] < pr[2]
    IN  SelectSeq(all, Lt)

\* torch.triu_indices(n, n, offset=1): the positions above the diagonal, row-major.
TriuIndices(n) ==
    LET all == [k \in 1 .. (n * n) |-> <<(k - 1) \div n, (k - 1) % n>>]
        Above(pr) == pr[1] < pr[2]
    IN  SelectSeq(all, Above)

\* zeros((n, n)) with m[idx[k]] = values[k].
ScatterUpper(n, idx, values) ==
    [r \in 0 .. (n - 1) |-> [c \in 0 .. (n - 1) |->
        IF \E k \in 1 .. Len(idx) : idx[k] = <<r, c>>
        THEN values[CHOOSE k \in 1 .. Len(idx) : idx[k] = <<r, c>>]
        ELSE RInt(0)]]

\* torch.triu(m) + torch.tril(m.T)
Symmetrize(n, m) ==
    [r \in 0 .. (n - 1) |-> [c \in 0 .. (n - 1) |->
        RAdd(IF r <= c THEN m[r][c] ELSE RInt(0),
             IF r >= c THEN m[c][r] ELSE RInt(0))]]

\* m.fill_diagonal_(1.0)
FillDiagonal(n, m) ==
    [r \in 0 .. (n - 1) |-> [c \in 0 .. (n - 1) |->
        IF r = c THEN RInt(1) ELSE m[r][c]]]

\* torch.mean(torch.stack(rows), dim=0) of a batch of equally long vectors.
MeanOverBatch(rows, len) ==
    [k \in 1 .. len |->
        RDiv(RSumTo([b \in 0 .. (Len(rows) - 1) |-> rows[b + 1][k]], Len(rows)),
             RInt(Len(rows)))]

ConditionalCorrcoeff(a) ==
    LET subset == IF a.subset.none THEN [k \in 1 .. NDim |-> k - 1]
                  ELSE a.subset.list
        n == Len(subset)
        pairs == PairList(subset)
        correlation_matrices ==
            [b \in 1 .. Len(a.condition) |->
                [k \in 1 .. Len(pairs) |->
                    PairCoefficient(a.density, a.condition[b], pairs[k][1], pairs[k][2])]]
    IN  \* torch.stack of an empty list raises
        IF Len(pairs) = 0 \/ Len(a.condition) = 0
        THEN [error |-> "RuntimeError", shape |-> <<>>, data |-> <<>>]
        ELSE LET average_correlations == MeanOverBatch(correlation_matrices, Len(pairs))
                 triu_indices == TriuIndices(n)
             IN  IF Len(triu_indices) # Len(average_correlations)
                 THEN [error |-> "RuntimeError", shape |-> <<>>, data |-> <<>>]
                 ELSE [error |-> "none", shape |-> <<n, n>>,
                       data |-> FillDiagonal(n, Symmetrize(n,
                                    ScatterUpper(n, triu_indices, average_correlations)))]

\* All orderings of all non-empty sets of distinct dimensions.
RECURSIVE Orderings(_)
Orderings(S) ==
    IF S = {} THEN {<<>>}
    ELSE UNION {{<<x>> \o t : t \in Orderings(S \ {x})} : x \in S}

DimLists == UNION {Orderings(S) : S \in (SUBSET Dims) \ {{}}}

CorrConditions ==
    {[d \in Dims |-> 0], [d \in Dims |-> d + 1]}

ConditionBatches ==
    UNION {[1 .. n -> CorrConditions] : n \in 1 .. MaxBatch}

CorrArgs ==
    [fn : {"conditional_corrcoeff"},
     density : {[sign |-> 1], [sign |-> -1]},
     condition : ConditionBatches,
     subset : {[none |-> FALSE, list |-> l] : l \in DimLists}
                  \cup {[none |-> TRUE, list |-> <<>>]}]

InitCorr ==
    /\ pc = "call"
    /\ args \in CorrArgs
    /\ ret = [error |-> "none", shape |-> <<>>, data |-> <<>>]
    /\ NoAdapter

CallConditionalCorrcoeff ==
    /\ pc = "call"
    /\ args.fn = "conditional_corrcoeff"
    /\ ret' = ConditionalCorrcoeff(args)
    /\ pc' = "done"
    /\ UNCHANGED <<args, adapterVars>>

NextCorr == CallConditionalCorrcoeff

SpecCorr == InitCorr /\ [][NextCorr]_vars

\* ---- claims about conditional_corrcoeff
CorrDone == pc = "done" /\ args.fn = "conditional_corrcoeff"

ClaimSubset ==
    IF args.subset.none THEN [k \in 1 .. NDim |-> k - 1] ELSE args.subset.list

\* The coefficient of the unordered pair {x, y} under the b-th condition.
ClaimCoefficient(b, x, y) ==
    PairCoefficient(args.density, args.condition[b],
                    IF x < y THEN x ELSE y, IF x < y THEN y ELSE x)

\* C2: for a single conditioning vector and a subset given as a list of
\* distinct dimensions in any order, the off-diagonal entry [a][b] of the
\* returned matrix is the Pearson coefficient of the pair
\* {subset[a], subset[b]}.
C2_EntryIsCoefficientOfItsPair ==
    (CorrDone /\ Len(args.condition) = 1 /\ ret.error = "none") =>
        \A a \in 0 .. (Len(ClaimSubset) - 1) : \A b \in 0 .. (Len(ClaimSubset) - 1) :
            a # b => ret.data[a][b] =
                        ClaimCoefficient(1, ClaimSubset[a + 1], ClaimSubset[b + 1])

\* C3: for a non-empty batch of conditions and a non-empty subset of
\* distinct dimensions (default: all), conditional_corrcoeff returns a
\* matrix of shape (len(subset), len(subset)) that is symmetric and has
\* diagonal entries exactly 1.0.
C3_ShapeSymmetricUnitDiagonal ==
    (CorrDone /\ Len(args.condition) >= 1 /\ Len(ClaimSubset) >= 1) =>
        /\ ret.error = "none"
        /\ ret.shape = <<Len(ClaimSubset), Len(ClaimSubset)>>
        /\ \A a \in 0 .. (Len(ClaimSubset) - 1) :
              /\ ret.data[a][a] = RInt(1)
              /\ \A b \in 0 .. (Len(ClaimSubset) - 1) : ret.data[a][b] = ret.data[b][a]

\* ------------------------------------------------------------------ condition_mog
\* The batch size is 1 (the .view(1, n_mixtures, ...) calls fix it).  Vectors
\* and matrices are 0-based functions; index lists are sequences.

\* The dimensions where mask is True (or False), ascending: what boolean-mask
\* indexing selects.
MaskedIdx(mask, value) ==
    LET all == [k \in 1 .. NDim |-> k - 1]
        Sel(d) == mask[d] = value
    IN  SelectSeq(all, Sel)

\* v[idx] for an index list.
TakeVec(v, idx) == [i \in 0 .. (Len(idx) - 1) |-> v[idx[i + 1]]]

\* m[rows][:, cols] for index lists.
TakeBlock(m, rows, cols) ==
    [r \in 0 .. (Len(rows) - 1) |-> [c \in 0 .. (Len(cols) - 1) |->
        m[rows[r + 1]][cols[c + 1]]]]

\* m.transpose @ m for an (n x n) matrix.
GramMatrix(m, n) ==
    [i \in 0 .. (n - 1) |-> [j \in 0 .. (n - 1) |->
        SumTo([k \in 0 .. (n - 1) |-> m[k][i] * m[k][j]], n)]]

\* m without row i and column j.
Minor(m, n, i, j) ==
    [r \in 0 .. (n - 2) |-> [c \in 0 .. (n - 2) |->
        m[IF r >= i THEN r + 1 ELSE r][IF c >= j THEN c + 1 ELSE c]]]

RECURSIVE Det(_, _)
Det(m, n) ==
    IF n = 0 THEN 1
    ELSE IF n = 1 THEN m[0][0]
    ELSE SumTo([j \in 0 .. (n - 1) |->
                   (IF j % 2 = 0 THEN 1 ELSE -1) * m[0][j] * Det(Minor(m, n, 0, j), n - 1)],
               n)

\* det(m) * inverse(m)
Adjugate(m, n) ==
    [i \in 0 .. (n - 1) |-> [j \in 0 .. (n - 1) |->
        (IF (i + j) % 2 = 0 THEN 1 ELSE -1) * Det(Minor(m, n, j, i), n - 1)]]

\* mu_x - inverse(precs_xx) @ precs_xy @ (y - mu_y), exactly.
ConditionalMean(mu_x, precs_xx, precs_xy, y, mu_y, nx, ny) ==
    LET v == [i \in 0 .. (nx - 1) |->
                 SumTo([j \in 0 .. (ny - 1) |-> precs_xy[i][j] * (y[j] - mu_y[j])], ny)]
        adj == Adjugate(precs_xx, nx)
        det == Det(precs_xx, nx)
    IN  [i \in 0 .. (nx - 1) |->
            RSub(RInt(mu_x[i]),
                 Rat(SumTo([j \in 0 .. (nx - 1) |-> adj[i][j] * v[j]], nx), det))]

\* A float as an exact rational.
AsRat(x) ==
    IF x.k = "fin" THEN RInt(x.v)
    ELSE IF x.k = "nan" THEN RNaN
    ELSE RInf

\* torch.log of an exact value, kept as the value it is the logarithm of.
TorchLog(q) == [log_of |-> q]

\* exp(logits + log_prob), divided by its sum over everything, then log.
RenormalizedLogits(logits, log_prob, n_mixtures) ==
    LET new_mcs == [k \in 0 .. (n_mixtures - 1) |->
                       AsRat(TorchExp(Fin(logits[k] + log_prob)))]
        total == RSumTo(new_mcs, n_mixtures)
    IN  [k \in 0 .. (n_mixtures - 1) |-> TorchLog(RDiv(new_mcs[k], total))]

\* mdn.log_prob_mog(y, zeros((1, 1)), mu_y, precs_yy, sumlogdiag_yy) of the
\* mixture-density library: the log-density of y under the equally weighted
\* mixture of the marginals, one number for the batch element.  Modelled by
\* its dominant term, the quadratic form of the closest component:
\* -min_k (y - mu_y[k])^T precs_yy[k] (y - mu_y[k]).
LogProbMog(y, mu_y, precs_yy, ny, n_mixtures) ==
    LET Quad(k) ==
            SumTo([i \in 0 .. (ny - 1) |->
                      (y[i] - mu_y[k][i])
                      * SumTo([j \in 0 .. (ny - 1) |->
                                  precs_yy[k][i][j] * (y[j] - mu_y[k][j])], ny)],
                  ny)
    IN  SetMax({-Quad(k) : k \in 1 .. n_mixtures})

\* condition_mog
ConditionMog(a) ==
    LET n_mixtures == Len(a.means)
        mask == [d \in Dims |-> \E i \in 1 .. Len(a.dims) : a.dims[i] = d]
        kept == MaskedIdx(mask, TRUE)
        fixed == MaskedIdx(mask, FALSE)
        nx == Len(kept)
        ny == Len(fixed)
        y == TakeVec(a.condition, fixed)
        Comp(k) ==
            LET mu_x == TakeVec(a.means[k], kept)
                mu_y == TakeVec(a.means[k], fixed)
                precfs_xx == TakeBlock(a.precfs[k], kept, kept)
                precs_xx == GramMatrix(precfs_xx, nx)
                precs == GramMatrix(a.precfs[k], NDim)
                precs_xy == TakeBlock(precs, kept, fixed)
            IN  [means |-> ConditionalMean(mu_x, precs_xx, precs_xy, y, mu_y, nx, ny),
                 precs_xx |-> precs_xx,
                 precfs_xx |-> precfs_xx,
                 sumlogdiag |->
                     TorchLog(RProdTo([i \in 0 .. (nx - 1) |-> RInt(precfs_xx[i][i])], nx))]
        mu_y_all == [k \in 1 .. n_mixtures |-> TakeVec(a.means[k], fixed)]
        precs_yy_all ==
            [k \in 1 .. n_mixtures |->
                GramMatrix(TakeBlock(a.precfs[k], fixed, fixed), ny)]
        log_prob == LogProbMog(y, mu_y_all, precs_yy_all, ny, n_mixtures)
    IN  [log_prob |-> log_prob,
         logits |-> RenormalizedLogits([k \in 0 .. (n_mixtures - 1) |-> a.logits[k + 1]],
                                       log_prob, n_mixtures),
         components |-> [k \in 1 .. n_mixtures |-> Comp(k)]]

\* The mixtures drawn: per component a log-weight, a mean and an
\* upper-triangular precision factor with positive diagonal.
MogPrecfs ==
    {[i \in Dims |-> [j \in Dims |-> IF i = j THEN 1 ELSE 0]],
     [i \in Dims |-> [j \in Dims |-> IF i <= j THEN 1 ELSE 0]],
     [i \in Dims |-> [j \in Dims |-> IF i = j THEN 2 ELSE IF i < j THEN j - i ELSE 0]]}

MogMeans == {[d \in Dims |-> 0], [d \in Dims |-> d + 1]}

\* Conditions near the component means, and one far in their tails.
MogConditions == {[d \in Dims |-> 1], [d \in Dims |-> 2 - d], [d \in Dims |-> 9]}

MogArgs ==
    UNION {
        [fn : {"condition_mog"},
         condition : MogConditions,
         dims : {l \in DimLists : Len(l) < NDim
                                  /\ \A k \in 1 .. (Len(l) - 1) : l[k] < l[k + 1]},
         logits : [1 .. m -> {0, -1}],
         means : [1 .. m -> MogMeans],
         precfs : [1 .. m -> MogPrecfs]]
        : m \in 1 .. MaxMix}

InitMog ==
    /\ pc = "call"
    /\ args \in MogArgs
    /\ ret = [log_prob |-> 0, logits |-> <<>>, components |-> <<>>]
    /\ NoAdapter

CallConditionMog ==
    /\ pc = "call"
    /\ args.fn = "condition_mog"
    /\ ret' = ConditionMog(args)
    /\ pc' = "done"
    /\ UNCHANGED <<args, adapterVars>>

NextMog == CallConditionMog

SpecMog == InitMog /\ [][NextMog]_vars

\* ---- claims about condition_mog
MogDone == pc = "done" /\ args.fn = "condition_mog"

ClaimKept == MaskedIdx([d \in Dims |-> \E i \in 1 .. Len(args.dims) : args.dims[i] = d], TRUE)

ClaimFixed == MaskedIdx([d \in Dims |-> \E i \in 1 .. Len(args.dims) : args.dims[i] = d], FALSE)

\* The full precision matrix of component k and its kept/kept block.
ClaimPrecision(k) == GramMatrix(args.precfs[k], NDim)

ClaimPxx(k) == TakeBlock(ClaimPrecision(k), ClaimKept, ClaimKept)

\* The exact Gaussian conditional mean of component k.
ClaimExactMean(k) ==
    ConditionalMean(TakeVec(args.means[k], ClaimKept), ClaimPxx(k),
                    TakeBlock(ClaimPrecision(k), ClaimKept, ClaimFixed),
                    TakeVec(args.condition, ClaimFixed),
                    TakeVec(args.means[k], ClaimFixed),
                    Len(ClaimKept), Len(ClaimFixed))

\* C7: for every kept-dimension set (any non-empty proper subset, not only
\* a leading prefix) and upper-triangular precision factors, the block
\* precfs_xx^T precfs_xx the code inverts equals the kept/kept block P_xx of
\* the full precision, and the returned mean of every component is the exact
\* Gaussian conditional mean mu_x - P_xx^-1 P_xy (y - mu_y).
C7_ConditionalMeanIsExact ==
    MogDone =>
        \A k \in 1 .. Len(args.means) :
            /\ ret.components[k].precs_xx = ClaimPxx(k)
            /\ ret.components[k].means = ClaimExactMean(k)

\* C8: for every valid input the mixture weights exp(logits) returned by
\* condition_mog sum to 1 over the mixture components.
C8_WeightsSumToOne ==
    MogDone =>
        RSumTo([k \in 0 .. (Len(args.means) - 1) |-> ret.logits[k].log_of],
               Len(args.means)) = RInt(1)

\* ------------------------------------------- the dimension-restriction adapters
\* ConditionedPotential and RestrictedTransformForConditional each hold a
\* condition tensor of one row; heap maps a reference to the tensor it names
\* (a sequence of rows, a row a function of the dimension).  "work1" and
\* "work2" are the tensors a method allocates; they are dropped on return.
StoredRefs == {"potential.condition", "transform.condition"}

Refs == StoredRefs \cup {"work1", "work2"}

\* copy.deepcopy(t): a new tensor.
DeepCopyRef(src, fresh) == fresh

\* A repeat that hands back its argument when there is nothing to repeat
\* (as expand or view would).
RepeatRefShared(src, n, fresh) == IF n = 1 THEN src ELSE fresh

\* t.repeat(n, 1): always a new tensor.
RepeatRef(src, n, fresh) == fresh

\* The rows of t.repeat(n, 1).
Tile(t, n) == [i \in 1 .. (Len(t) * n) |-> t[((i - 1) % Len(t)) + 1]]

\* An assignment that writes the first row of theta into every row.
IndexPutFirstRow(t, dims, theta) ==
    [i \in 1 .. Len(t) |-> [d \in Dims |->
        IF \E k \in 1 .. Len(dims) : dims[k] = d
        THEN theta[1][CHOOSE k \in 1 .. Len(dims) : dims[k] = d]
        ELSE t[i][d]]]

\* t[:, dims] = theta, in place.
IndexPut(t, dims, theta) ==
    [i \in 1 .. Len(t) |-> [d \in Dims |->
        IF \E k \in 1 .. Len(dims) : dims[k] = d
        THEN theta[i][CHOOSE k \in 1 .. Len(dims) : dims[k] = d]
        ELSE t[i][d]]]

\* t[:, dims]
Project(t, dims) ==
    [i \in 1 .. Len(t) |-> [k \in 1 .. Len(dims) |-> t[i][dims[k]]]]

\* The working tensors are dropped when the method returns.
Release(h) == [h EXCEPT !["work1"] = <<>>, !["work2"] = <<>>]

\* The full batch a method builds: the stored condition repeated to the
\* batch size of theta in a working tensor, with the sampled columns
\* overwritten.  Returns the heap after the writes.
BuildFullTheta(h, stored, theta, fresh) ==
    LET r == RepeatRef(stored, Len(theta), fresh)
        h1 == [h EXCEPT ![r] = Tile(h[stored], Len(theta))]
    IN  [h1 EXCEPT ![r] = IndexPut(h1[r], dims_to_sample, theta)]

\* The reference of the full batch BuildFullTheta wrote.
FullThetaRef(stored, theta, fresh) == RepeatRef(stored, Len(theta), fresh)

\* The wrapped transform, applied to one full row.  "shift" and "negate" act
\* on each dimension independently; "coupled" adds the last coordinate to
\* every other one and shifts the last.  All three are bijections.
TransformForward(tr, row) ==
    IF tr.kind = "shift" THEN [d \in Dims |-> row[d] + d + 1]
    ELSE IF tr.kind = "negate" THEN [d \in Dims |-> -row[d]]
    ELSE [d \in Dims |-> IF d = NDim - 1 THEN row[d] + 1
                         ELSE row[d] + row[NDim - 1]]

TransformInverse(tr, row) ==
    IF tr.kind = "shift" THEN [d \in Dims |-> row[d] - d - 1]
    ELSE IF tr.kind = "negate" THEN [d \in Dims |-> -row[d]]
    ELSE [d \in Dims |-> IF d = NDim - 1 THEN row[d] - 1
                         ELSE row[d] - (row[NDim - 1] - 1)]

\* transform.log_abs_det_jacobian(full1, full2): the three transforms
\* preserve volume.
TransformLogAbsDet(tr, full1, full2) == [i \in 1 .. Len(full1) |-> 0]

\* The wrapped potential_fn(theta, track_gradients): one log-probability
\* per row.
PotentialFn(theta, track_gradients) ==
    [i \in 1 .. Len(theta) |->
        Fin(-SumTo([d \in Dims |-> Abs(theta[i][d])], NDim))]

\* An observation is [none, batch, data]: none is TRUE for None; batch is 0
\* for an unbatched tensor, else the size of its leading axis.
NoneX == [none |-> TRUE, batch |-> 0, data |-> 0]

\* process_x(x_o, allow_iid_x=False): adds the batch axis, rejects a batch
\* of more than one observation.
ProcessXRaises(x) == x.batch > 1

ProcessX(x) == [x EXCEPT !.batch = 1]

\* potential_fn.set_x(x_o) of the wrapped potential: the new potential_fn._x_o.
PotentialSetX(x) == x

\* ConditionedPotential.set_x: the new potential_fn._x_o, given the current one.
SetXResult(current, x) ==
    IF x.none THEN PotentialSetX(x)
    ELSE IF ProcessXRaises(x) THEN current
    ELSE PotentialSetX(ProcessX(x))

\* The x_o property returning the unset value instead of raising.
XoPropertyNoRaise(current) == [error |-> "none", value |-> current]

\* The x_o property (getter).
XoProperty(current) ==
    IF ~current.none THEN [error |-> "none", value |-> current]
    ELSE [error |-> "ValueError: No observed data is available.", value |-> NoneX]

\* return_x_o
ReturnXo(current) == [error |-> "none", value |-> current]

\* The record of a method call.
CallRec(op, theta, passed, out, chained, orig) ==
    [op |-> op, theta |-> theta, passed |-> passed, out |-> out,
     chained |-> chained, orig |-> orig]

\* ---- what the adapter specification draws
ThetaRows(k) == {[i \in 1 .. k |-> 0], [i \in 1 .. k |-> i + 1]}

ThetaBatches(k) == UNION {[1 .. n -> ThetaRows(k)] : n \in 1 .. MaxBatch}

AdapterConditions == {[d \in Dims |-> 5], [d \in Dims |-> 7 - d]}

\* Significand bits of torch.float32.
Float32Precision == 24

\* The unit in the last place of float32 at the magnitude of the integer v.
Float32Ulp(v) ==
    Pow2(CHOOSE e \in 0 .. 7 :
             \/ e = 0 /\ Abs(v) < Pow2(Float32Precision)
             \/ /\ e > 0
                /\ Abs(v) >= Pow2(Float32Precision - 1 + e)
                /\ Abs(v) < Pow2(Float32Precision + e))

\* The float32 nearest to the integer v, ties to the even significand.
Float32(v) ==
    LET u == Float32Ulp(v)
        q == Abs(v) \div u
        r == Abs(v) % u
        m == IF 2 * r < u THEN q
             ELSE IF 2 * r > u THEN q + 1
             ELSE IF q % 2 = 0 THEN q ELSE q + 1
    IN  IF v < 0 THEN -(m * u) ELSE m * u

\* torch.as_tensor(theta, dtype=torch.float32) on the rows of theta.
AsTensorFloat32(rows) ==
    [i \in 1 .. Len(rows) |-> [k \in 1 .. Len(rows[i]) |-> Float32(rows[i][k])]]

\* theta arguments of ConditionedPotential.__call__: float32 batches, 1-D
\* tensors, and float64 batches holding a value float32 cannot represent.
WideRows(k) == {[i \in 1 .. k |-> Pow2(Float32Precision) + i]}

PotentialThetas(k) ==
    {[batched |-> TRUE, rows |-> b] : b \in ThetaBatches(k)}
        \cup {[batched |-> FALSE, rows |-> <<row>>] : row \in ThetaRows(k)}
        \cup {[batched |-> TRUE, rows |-> <<row, wide>>] :
                  row \in ThetaRows(k), wide \in WideRows(k)}

DimsToSampleChoices == {<<0>>, <<NDim - 1>>, <<NDim - 1, 0>>, <<1, NDim - 1>>}

Transforms == {[kind |-> "shift", elementwise |-> TRUE],
               [kind |-> "negate", elementwise |-> TRUE],
               [kind |-> "coupled", elementwise |-> FALSE]}

Observations ==
    {[none |-> FALSE, batch |-> b, data |-> v] : b \in {0, 1, 2}, v \in {1, 2}}

InitAdapter ==
    /\ pc = "idle"
    /\ args = [fn |-> "none"]
    /\ ret = <<>>
    /\ \E c \in AdapterConditions :
           heap = [r \in Refs |-> IF r \in StoredRefs THEN <<c>> ELSE <<>>]
    /\ dims_to_sample \in DimsToSampleChoices
    /\ transform \in Transforms
    /\ x_o \in {NoneX} \cup {ProcessX(x) : x \in {o \in Observations : o.data = 1}}
    /\ last_set = x_o
    /\ call = CallRec("none", <<>>, <<>>, <<>>, FALSE, <<>>)

\* A theta argument is [batched, rows]: batched is FALSE for a 1-D tensor,
\* whose entries are then rows[1].  ensure_theta_batched adds the batch axis
\* to a 1-D tensor and leaves a 2-D tensor as it is.
EnsureThetaBatched(theta) == theta.rows

\* ConditionedPotential.__call__(theta, track_gradients)
PotentialCall(theta, track_gradients) ==
    LET theta_ == EnsureThetaBatched([theta EXCEPT !.rows = AsTensorFloat32(@)])
        n == Len(theta_)
        r1 == DeepCopyRef("potential.condition", "work1")
        h1 == [heap EXCEPT ![r1] = heap["potential.condition"]]
        r2 == RepeatRef(r1, n, "work2")
        h2 == [h1 EXCEPT ![r2] = Tile(h1[r1], n)]
        h3 == [h2 EXCEPT ![r2] = IndexPut(h2[r2], dims_to_sample, theta_)]
        theta_condition == h3[r2]
    IN  /\ heap' = Release(h3)
        /\ call' = CallRec("__call__", theta,
                           <<[theta |-> theta_condition,
                              track_gradients |-> track_gradients]>>,
                           PotentialFn(theta_condition, track_gradients),
                           FALSE, track_gradients)
        /\ UNCHANGED <<fnVars, dims_to_sample, transform, x_o, last_set>>

\* RestrictedTransformForConditional.forward(theta)
ForwardResult(h, theta) ==
    LET h2 == BuildFullTheta(h, "transform.condition", theta, "work1")
        full_theta == h2[FullThetaRef("transform.condition", theta, "work1")]
        tf_full_theta == [i \in 1 .. Len(full_theta) |->
                             TransformForward(transform, full_theta[i])]
    IN  [heap |-> Release(h2), passed |-> full_theta,
         out |-> Project(tf_full_theta, dims_to_sample)]

\* inv applying the transform itself instead of its inverse.
InvResultNotInverted(h, theta) == ForwardResult(h, theta)

\* RestrictedTransformForConditional.inv(theta)
InvResult(h, theta) ==
    LET h2 == BuildFullTheta(h, "transform.condition", theta, "work1")
        full_theta == h2[FullThetaRef("transform.condition", theta, "work1")]
        tf_full_theta == [i \in 1 .. Len(full_theta) |->
                             TransformInverse(transform, full_theta[i])]
    IN  [heap |-> Release(h2), passed |-> full_theta,
         out |-> Project(tf_full_theta, dims_to_sample)]

TransformForwardCall(theta) ==
    LET r == ForwardResult(heap, theta)
    IN  /\ heap' = r.heap
        /\ call' = CallRec("forward", theta, r.passed, r.out, FALSE, <<>>)
        /\ UNCHANGED <<fnVars, dims_to_sample, transform, x_o, last_set>>

TransformInvCall(theta) ==
    LET r == InvResult(heap, theta)
    IN  /\ heap' = r.heap
        /\ call' = CallRec("inv", theta, r.passed, r.out, FALSE, <<>>)
        /\ UNCHANGED <<fnVars, dims_to_sample, transform, x_o, last_set>>

\* inv applied to what the preceding forward returned.
TransformInvOfForward ==
    /\ call.op = "forward"
    /\ LET r == InvResult(heap, call.out)
       IN  /\ heap' = r.heap
           /\ call' = CallRec("inv", call.out, r.passed, r.out, TRUE, call.theta)
    /\ UNCHANGED <<fnVars, dims_to_sample, transform, x_o, last_set>>

\* RestrictedTransformForConditional.log_abs_det_jacobian(theta1, theta2)
LogAbsDetJacobianCall(theta1, theta2) ==
    LET h1 == BuildFullTheta(heap, "transform.condition", theta1, "work1")
        full_theta1 == h1[FullThetaRef("transform.condition", theta1, "work1")]
        h2 == BuildFullTheta(h1, "transform.condition", theta2, "work2")
        full_theta2 == h2[FullThetaRef("transform.condition", theta2, "work2")]
    IN  /\ heap' = Release(h2)
        /\ call' = CallRec("log_abs_det_jacobian", <<theta1, theta2>>,
                           <<full_theta1, full_theta2>>,
                           TransformLogAbsDet(transform, full_theta1, full_theta2),
                           FALSE, <<>>)
        /\ UNCHANGED <<fnVars, dims_to_sample, transform, x_o, last_set>>

\* ConditionedPotential.set_x(x)
SetX(x) ==
    /\ x_o' = SetXResult(x_o, x)
    /\ last_set' = IF x.none THEN NoneX
                   ELSE IF x.batch > 1 THEN last_set
                   ELSE [x EXCEPT !.batch = 1]
    /\ call' = CallRec("set_x", x, <<>>,
                       IF ~x.none /\ ProcessXRaises(x) THEN "ValueError" ELSE "None",
                       FALSE, <<>>)
    /\ UNCHANGED <<fnVars, heap, dims_to_sample, transform>>

\* The x_o setter: self.set_x(x)
XoSetter(x) ==
    /\ x_o' = SetXResult(x_o, x)
    /\ last_set' = IF x.none THEN NoneX
                   ELSE IF x.batch > 1 THEN last_set
                   ELSE [x EXCEPT !.batch = 1]
    /\ call' = CallRec("x_o.setter", x, <<>>,
                       IF ~x.none /\ ProcessXRaises(x) THEN "ValueError" ELSE "None",
                       FALSE, <<>>)
    /\ UNCHANGED <<fnVars, heap, dims_to_sample, transform>>

\* Reading the x_o property.
XoRead ==
    /\ call' = CallRec("x_o", <<>>, <<>>, XoProperty(x_o), FALSE, <<>>)
    /\ UNCHANGED <<fnVars, heap, dims_to_sample, transform, x_o, last_set>>

ReturnXoCall ==
    /\ call' = CallRec("return_x_o", <<>>, <<>>, ReturnXo(x_o), FALSE, <<>>)
    /\ UNCHANGED <<fnVars, heap, dims_to_sample, transform, x_o, last_set>>

NextAdapter ==
    \/ \E theta \in PotentialThetas(Len(dims_to_sample)) : \E tg \in BOOLEAN :
           PotentialCall(theta, tg)
    \/ \E theta \in ThetaBatches(Len(dims_to_sample)) : TransformForwardCall(theta)
    \/ \E theta \in ThetaBatches(Len(dims_to_sample)) : TransformInvCall(theta)
    \/ TransformInvOfForward
    \/ \E theta1 \in ThetaBatches(Len(dims_to_sample)) :
           \E theta2 \in {theta1, ForwardResult(heap, theta1).out} :
               LogAbsDetJacobianCall(theta1, theta2)
    \/ \E x \in Observations \cup {NoneX} : SetX(x)
    \/ \E x \in Observations \cup {NoneX} : XoSetter(x)
    \/ XoRead
    \/ ReturnXoCall

SpecAdapter == InitAdapter /\ [][NextAdapter]_vars

\* ---- claims about the adapters
\* C4 as stated: for any invertible wrapped transform, any condition,
\* dims_to_sample and batch theta_reduced, inv(forward(theta_reduced)) is
\* theta_reduced.
C4_InvOfForwardIsIdentity ==
    (call.op = "inv" /\ call.chained) => call.out = call.orig

\* C4 amended: the same for any invertible wrapped transform that acts on
\* each dimension independently.
C4_InvOfForwardIsIdentityElementwise ==
    (call.op = "inv" /\ call.chained /\ transform.elementwise) =>
        call.out = call.orig

\* inv has undone a forward that changed a batch of two different rows.
C4_Witness ==
    /\ call.op = "inv"
    /\ call.chained
    /\ transform.elementwise
    /\ Len(call.orig) = 2
    /\ call.orig[1] # call.orig[2]
    /\ call.theta # call.orig
    /\ call.out = call.orig

\* C5: no call of ConditionedPotential.__call__ or of forward, inv or
\* log_abs_det_jacobian changes the stored condition of either adapter or
\* dims_to_sample: the sampled columns are overwritten in a working copy.
C5_StoredConditionUnchanged ==
    [][/\ \A r \in StoredRefs : heap'[r] = heap[r]
       /\ dims_to_sample' = dims_to_sample]_vars

\* A method has built a full batch that differs from the stored condition.
C5_Witness ==
    /\ call.op = "forward"
    /\ Len(call.theta) = 1
    /\ call.passed # heap["transform.condition"]
    /\ \A d \in Dims :
           (\A k \in 1 .. Len(dims_to_sample) : dims_to_sample[k] # d)
               => call.passed[1][d] = heap["transform.condition"][1][d]

\* C6: reading x_o raises "No observed data is available" exactly when the
\* observation is unset (never set, or last set to None) and otherwise
\* returns the observation last set; a read leaves the observation
\* unchanged; return_x_o never raises and returns the observation or None.
C6_XoReadFailsIffUnset ==
    /\ [](call.op = "x_o" =>
            /\ (call.out.error # "none") <=> last_set.none
            /\ last_set.none =>
                   call.out.error = "ValueError: No observed data is available."
            /\ ~last_set.none => call.out.value = last_set)
    /\ [](call.op = "return_x_o" =>
            /\ call.out.error = "none"
            /\ call.out.value = last_set)
    /\ [][call'.op \in {"x_o", "return_x_o"} => x_o' = x_o]_vars

\* x_o has been read while the observation is unset, and raised.
C6_WitnessRaised ==
    /\ call.op = "x_o"
    /\ call.out.error # "none"
    /\ x_o.none
    /\ last_set.none

\* ---- ConditionedPotential.__call__
\* The positions of dims_to_sample.
SampledPositions == 1 .. Len(dims_to_sample)

\* d is a column the call samples.
IsSampled(d) == \E k \in SampledPositions : dims_to_sample[k] = d

\* The single invocation of the wrapped potential, given the value each
\* sampled column must hold: one call, n full rows, sampled columns from
\* theta, the other columns from the stored condition, track_gradients as
\* given, and the result handed back as it is.
DelegatesOnce(expected(_)) ==
    LET rows == call.theta.rows
    IN  /\ Len(call.passed) = 1
        /\ Len(call.passed[1].theta) = Len(rows)
        /\ \A r \in 1 .. Len(rows) :
               /\ DOMAIN call.passed[1].theta[r] = Dims
               /\ \A k \in SampledPositions :
                      call.passed[1].theta[r][dims_to_sample[k]] = expected(rows[r][k])
               /\ \A d \in Dims : ~IsSampled(d) =>
                      call.passed[1].theta[r][d] = heap["potential.condition"][1][d]
        /\ call.passed[1].track_gradients = call.orig
        /\ call.out = PotentialFn(call.passed[1].theta, call.orig)

AsGiven(v) == v

\* C11 as stated: for every batch theta_reduced of n rows, __call__ invokes
\* the wrapped potential once with an n-row full batch whose column
\* dims_to_sample[k] equals theta_reduced[r][k] and whose other columns equal
\* the stored condition, passes track_gradients through and returns the
\* wrapped potential's result.
C11_DelegatesWithThetaColumns ==
    (call.op = "__call__" /\ call.theta.batched) => DelegatesOnce(AsGiven)

\* C11 amended: the same, with column dims_to_sample[k] equal to
\* theta_reduced[r][k] converted to float32.
C11_DelegatesWithFloat32ThetaColumns ==
    (call.op = "__call__" /\ call.theta.batched) => DelegatesOnce(Float32)

\* A batch of two different rows has been passed on with two sampled
\* columns, given in decreasing order.
C11_Witness ==
    /\ call.op = "__call__"
    /\ call.theta.batched
    /\ Len(call.theta.rows) = 2
    /\ call.theta.rows[1] # call.theta.rows[2]
    /\ Len(dims_to_sample) = 2
    /\ dims_to_sample[1] > dims_to_sample[2]
    /\ call.orig = FALSE
    /\ call.passed[1].theta[2][dims_to_sample[1]] = call.theta.rows[2][1]

\* ------------------------------------------ _compute_corrcoeff and helpers
\* torch.linspace(start, end, steps) in exact arithmetic.
RLinspace(start, end, steps) ==
    [i \in 0 .. (steps - 1) |->
        IF steps = 1 THEN RInt(start)
        ELSE Rat(start * (steps - 1) + i * (end - start), steps - 1)]

\* ensure_theta_batched on a tensor of probabilities: a vector gets a leading
\* axis of size 1.
EnsureProbsBatched(t) ==
    IF Len(t.shape) = 1
    THEN [shape |-> <<1, t.shape[1]>>, data |-> [i \in {0} |-> t.data]]
    ELSE t

\* ensure_theta_batched on limits: a single row <<lower, upper>> becomes the
\* one-row matrix; a matrix (rows 0, 1, ...) is left as it is.
EnsureLimitsBatched(limits) ==
    IF 0 \in DOMAIN limits THEN limits ELSE [r \in {0} |-> limits]

\* t.unsqueeze(0) of a vector.
Unsqueeze(t) == [shape |-> <<1, t.shape[1]>>, data |-> [i \in {0} |-> t.data]]

\* torch.flip(limits, [0]) leaving the rows in place.
TorchFlipNone(limits) == limits

\* torch.flip(limits, [0]): the rows in reverse order.
TorchFlip(limits) ==
    [r \in DOMAIN limits |-> limits[Cardinality(DOMAIN limits) - 1 - r]]

\* The functions f handed to the helpers, by name.
FArity(f) == IF f = "product" THEN 2 ELSE 1

FApply(f, xs) ==
    IF f = "product" THEN RMul(xs[1], xs[2])
    ELSE IF f = "square" THEN RMul(xs[1], xs[1])
    ELSE xs[1]

Min(a, b) == IF a < b THEN a ELSE b

\* What a helper returns when it raises.
Raised(error) == [error |-> error, value |-> RNaN, x_values |-> <<>>]

\* _expected_value_f_of_x(probs, limits, f).  x_values[k + 1] are the
\* coordinates laid along axis k of probs.
ExpectedValueFOfX(probs_in, limits_in, f) ==
    LET Expected(probs, limits) ==
            LET rows == probs.shape[1]
                cols == probs.shape[2]
                npairs == Min(Cardinality(DOMAIN limits), rows)
                Integrate(x_values) ==
                    LET cell(i, j) ==
                            IF npairs = 1 THEN FApply(f, <<x_values[1][j]>>)
                            ELSE FApply(f, <<x_values[1][i], x_values[2][j]>>)
                        weighted ==
                            [shape |-> probs.shape,
                             data |-> [i \in 0 .. (rows - 1) |->
                                          [j \in 0 .. (cols - 1) |->
                                              RMul(cell(i, j), probs.data[i][j])]]]
                    IN  [error |-> "none",
                         value |-> RDiv(TorchSum(weighted),
                                        RDiv(RInt(Numel(probs.shape)),
                                             LimitsDiff(limits))),
                         x_values |-> x_values]
                Coordinates(flipped) ==
                    [k \in 1 .. npairs |->
                        RLinspace(flipped[k - 1][1], flipped[k - 1][2], cols)]
            IN  IF FArity(f) # npairs THEN Raised("TypeError")
                ELSE IF npairs = 2 /\ rows \notin {1, cols}
                     THEN Raised("RuntimeError")
                ELSE Integrate(Coordinates(TorchFlip(limits)))
    IN  Expected(EnsureProbsBatched(probs_in), EnsureLimitsBatched(limits_in))

\* torch.sum(probs, dim=0) and torch.sum(probs, dim=1) of a matrix.
SumDim0(probs) ==
    [shape |-> <<probs.shape[2]>>,
     data |-> [j \in 0 .. (probs.shape[2] - 1) |->
                  RSumTo([i \in 0 .. (probs.shape[1] - 1) |-> probs.data[i][j]],
                         probs.shape[1])]]

SumDim1(probs) ==
    [shape |-> <<probs.shape[1]>>,
     data |-> [i \in 0 .. (probs.shape[1] - 1) |->
                  RSumTo(probs.data[i], probs.shape[2])]]

\* _calc_marginals(probs, limits) for a probs with two axes: kind "tuple"
\* holds (marginal_x, marginal_y), kind "tensor" the one normalized tensor.
CalcMarginals(probs, limits) ==
    IF probs.shape[1] > 1
    THEN [kind |-> "tuple",
          items |-> <<NormalizeProbs(SumDim0(probs), [r \in {0} |-> limits[0]]),
                      NormalizeProbs(SumDim1(probs), [r \in {0} |-> limits[1]])>>]
    ELSE [kind |-> "tensor", items |-> <<NormalizeProbs(probs, limits)>>]

\* What Python iterates over: the members of a tuple, the rows of a tensor.
PyIter(result) ==
    IF result.kind = "tuple" THEN result.items
    ELSE LET t == result.items[1]
         IN  [r \in 1 .. t.shape[1] |->
                 [shape |-> <<t.shape[2]>>, data |-> t.data[r - 1]]]

\* _compute_covariance(probs, limits, f): E[f(X, Y)] - f(E[X], E[Y]).
\* joint is the call for E[f]; of_marginals are the calls for E[X], E[Y].
ComputeCovariance(probs_in, limits_in, f) ==
    LET Covariance(probs, limits) ==
            LET Result(joint, of_marginals) ==
                    LET npairs == Len(of_marginals)
                        error ==
                            IF joint.error # "none" THEN joint.error
                            ELSE IF \E k \in 1 .. npairs :
                                        of_marginals[k].error # "none"
                                 THEN "TypeError"
                            ELSE IF FArity(f) # npairs THEN "TypeError"
                            ELSE "none"
                    IN  [error |-> error,
                         value |-> IF error # "none" THEN RNaN
                                   ELSE RSub(joint.value,
                                             FApply(f, [k \in 1 .. npairs |->
                                                           of_marginals[k].value])),
                         joint |-> joint,
                         of_marginals |-> IF joint.error # "none" THEN <<>>
                                          ELSE of_marginals]
                OfMarginals(margs) ==
                    [k \in 1 .. Min(Len(margs), Cardinality(DOMAIN limits)) |->
                        ExpectedValueFOfX(Unsqueeze(margs[k]),
                                          [r \in {0} |-> limits[k - 1]],
                                          "identity")]
            IN  Result(ExpectedValueFOfX(probs, limits, f),
                       OfMarginals(PyIter(CalcMarginals(probs, limits))))
    IN  Covariance(EnsureProbsBatched(probs_in), EnsureLimitsBatched(limits_in))

\* What _compute_corrcoeff returns when it raises.
CorrcoeffRaised(error) ==
    [error |-> error, covariance |-> RNaN, variance_x |-> RNaN,
     variance_y |-> RNaN, marginals |-> <<>>, joint_x_values |-> <<>>,
     x_values_of_x |-> <<>>, x_values_of_y |-> <<>>]

\* _compute_corrcoeff(probs, limits).  The coefficient is
\* covariance / sqrt(variance_x * variance_y); the three moments are
\* returned, with the marginals and the coordinates each was integrated over.
ComputeCorrcoeff(probs, limits) ==
    LET Result(covariance, marginals, variance_x, variance_y) ==
            IF variance_x.error # "none" THEN CorrcoeffRaised(variance_x.error)
            ELSE IF variance_y.error # "none"
                 THEN CorrcoeffRaised(variance_y.error)
            ELSE [error |-> "none",
                  covariance |-> covariance.value,
                  variance_x |-> variance_x.value,
                  variance_y |-> variance_y.value,
                  marginals |-> marginals,
                  joint_x_values |-> covariance.joint.x_values,
                  x_values_of_x |-> variance_x.joint.x_values,
                  x_values_of_y |-> variance_y.joint.x_values]
        Variances(covariance, marginals) ==
            IF covariance.error # "none" THEN CorrcoeffRaised(covariance.error)
            ELSE IF Len(marginals) # 2 THEN CorrcoeffRaised("ValueError")
            ELSE Result(covariance, marginals,
                        ComputeCovariance(marginals[1], limits[0], "square"),
                        ComputeCovariance(marginals[2], limits[1], "square"))
        Moments(normalized_probs) ==
            Variances(ComputeCovariance(normalized_probs, limits, "product"),
                      PyIter(CalcMarginals(normalized_probs, limits)))
    IN  Moments(NormalizeProbs(probs, limits))

\* The grid of eval_conditional_density as a tensor of exact probabilities.
AsProbs(grid) ==
    LET F(x) == IF x.k = "fin" THEN Rat(x.v, Pow2(ExpRange)) ELSE RNaN
    IN  [shape |-> grid.shape, data |-> MapTensor(grid.shape, grid.data, F)]

\* limits[[dim1, dim2]]
TakeLimits(limits, dim1, dim2) ==
    [r \in {0, 1} |-> IF r = 0 THEN limits[dim1] ELSE limits[dim2]]

\* _compute_corrcoeff(eval_conditional_density(density, cond, limits, dim1,
\* dim2, resolution), limits[[dim1, dim2]]), as conditional_corrcoeff calls it.
PairCorrcoeff(a) ==
    ComputeCorrcoeff(
        AsProbs(EvalConditionalDensity(
            [a EXCEPT !.fn = "eval_conditional_density"])),
        TakeLimits(a.limits, a.dim1, a.dim2))

\* The arguments drawn: every dimension has its own limits, and the density
\* is positive on the whole grid.
PairDensities == {d \in GridDensities : d.support = 100}

PairLimits ==
    {[d \in Dims |-> <<0, 6 * (d + 1)>>], [d \in Dims |-> <<-6 * (d + 1), 6>>]}

PairArgs ==
    {a \in [fn : {"_compute_corrcoeff"},
            density : PairDensities,
            condition : GridConditions,
            limits : PairLimits,
            dim1 : Dims,
            dim2 : Dims,
            resolution : 1 .. MaxRes,
            eps_margins1 : {0},
            eps_margins2 : {0},
            return_raw_log_prob : {FALSE}] : a.dim1 # a.dim2}

InitPair ==
    /\ pc = "call"
    /\ args \in PairArgs
    /\ ret = CorrcoeffRaised("none")
    /\ NoAdapter

CallPairCorrcoeff ==
    /\ pc = "call"
    /\ args.fn = "_compute_corrcoeff"
    /\ ret' = PairCorrcoeff(args)
    /\ pc' = "done"
    /\ UNCHANGED <<args, adapterVars>>

NextPair == CallPairCorrcoeff

SpecPair == InitPair /\ [][NextPair]_vars

\* ---- claims about _compute_corrcoeff on the grid of a pair
PairDone == pc = "done" /\ args.fn = "_compute_corrcoeff"

PairIdx == 0 .. (args.resolution - 1)

\* The grid points of dimension d and the parameter vector at grid index i1
\* of dim1 and i2 of dim2.
PairGrid(d) == Linspace(args.limits[d][1], args.limits[d][2], args.resolution)

PairPoint(i1, i2) ==
    [args.condition EXCEPT ![args.dim1] = PairGrid(args.dim1)[i1],
                           ![args.dim2] = PairGrid(args.dim2)[i2]]

\* The grid of raw log-probabilities eval_conditional_density produces.
PairRawGrid ==
    EvalConditionalDensity([args EXCEPT !.fn = "eval_conditional_density",
                                        !.return_raw_log_prob = TRUE]).data

\* Axis k of the grid ranges over dimension d: moving along axis k moves the
\* coordinate of d, moving along the other axis moves the other dimension.
RangesOver(k, d) ==
    \A i \in PairIdx : \A j \in PairIdx :
        LET along == IF k = 0 THEN i ELSE j
            across == IF k = 0 THEN j ELSE i
        IN  PairRawGrid[i][j] =
                LogProb(args.density,
                        IF d = args.dim1 THEN PairPoint(along, across)
                        ELSE PairPoint(across, along))

AxisDimensionIs(k, d) ==
    /\ RangesOver(k, d)
    /\ \A o \in {args.dim1, args.dim2} \ {d} : ~RangesOver(k, o)

\* The density at a grid point relative to the largest on the grid, and the
\* sum of it over the whole grid.
PairProb(i1, i2) ==
    LET m == TorchMax({LogProb(args.density, PairPoint(a, b)) :
                           a \in PairIdx, b \in PairIdx})
        x == TorchExp(Sub(LogProb(args.density, PairPoint(i1, i2)), m))
    IN  Rat(x.v, Pow2(ExpRange))

PairTotal ==
    RSumTo([a \in PairIdx |-> RSumTo([b \in PairIdx |-> PairProb(a, b)],
                                     args.resolution)], args.resolution)

\* The marginal density of dimension d at its grid index i, normalized so
\* that it integrates to one over the limits of d.
PairMarginal(d, i) ==
    LET summed == RSumTo([o \in PairIdx |->
                             IF d = args.dim1 THEN PairProb(i, o)
                             ELSE PairProb(o, i)], args.resolution)
        span == RInt(args.limits[d][2] - args.limits[d][1])
    IN  RDiv(RDiv(RMul(summed, RInt(args.resolution)), span), PairTotal)

PairCoordinates(d) ==
    RLinspace(args.limits[d][1], args.limits[d][2], args.resolution)

\* C12: when _compute_corrcoeff is applied to the grid of
\* eval_conditional_density for (dim1, dim2) with limits[[dim1, dim2]], the
\* coordinates along each axis of the grid are spaced within the limits of
\* the dimension that varies along that axis; marginal_x is the marginal of
\* dim1, normalized and integrated with the limits of dim1, and marginal_y
\* is the marginal of dim2 with the limits of dim2.
C12_AxesPairedWithTheirLimits ==
    (PairDone /\ ret.error = "none") =>
        /\ \A k \in {0, 1} : \A d \in {args.dim1, args.dim2} :
               AxisDimensionIs(k, d) => ret.joint_x_values[k + 1] = PairCoordinates(d)
        /\ \A i \in PairIdx :
               /\ ret.marginals[1].data[i] = PairMarginal(args.dim1, i)
               /\ ret.marginals[2].data[i] = PairMarginal(args.dim2, i)
        /\ ret.x_values_of_x = <<PairCoordinates(args.dim1)>>
        /\ ret.x_values_of_y = <<PairCoordinates(args.dim2)>>

\* The coefficient of a pair given in decreasing order has been computed on
\* a grid whose axes are told apart by the density, and the two marginals
\* differ.
C12_Witness ==
    /\ PairDone
    /\ ret.error = "none"
    /\ args.resolution = MaxRes
    /\ args.dim1 > args.dim2
    /\ AxisDimensionIs(0, args.dim2)
    /\ AxisDimensionIs(1, args.dim1)
    /\ PairCoordinates(args.dim1) # PairCoordinates(args.dim2)
    /\ ret.marginals[1] # ret.marginals[2]
    /\ ret.variance_x.k = "fin"
    /\ ret.variance_x.n > 0

\* ----------------------------------------------------------- _calc_marginals
\* The arguments drawn: a resolution x resolution grid with the limits of its
\* two dimensions, or a distribution over one dimension as a 1 x resolution
\* tensor with the one row of limits.
MarginalsArgs ==
    UNION {
        {[fn |-> "_calc_marginals", probs |-> p,
          limits |-> [r \in {0, 1} |-> IF r = 0 THEN l1 ELSE l2]] :
            p \in ProbMatrices(n), l1 \in LimitRows, l2 \in LimitRows}
        \cup
        {[fn |-> "_calc_marginals", probs |-> Unsqueeze(p),
          limits |-> [r \in {0} |-> l]] :
            p \in ProbVectors(n), l \in LimitRows}
        : n \in 1 .. MaxRes}

InitMarginals ==
    /\ pc = "call"
    /\ args \in MarginalsArgs
    /\ ret = [kind |-> "none", items |-> <<>>]
    /\ NoAdapter

CallCalcMarginals ==
    /\ pc = "call"
    /\ args.fn = "_calc_marginals"
    /\ ret' = CalcMarginals(args.probs, args.limits)
    /\ pc' = "done"
    /\ UNCHANGED <<args, adapterVars>>

NextMarginals == CallCalcMarginals

SpecMarginals == InitMarginals /\ [][NextMarginals]_vars

\* ---- claims about _calc_marginals
MarginalsDone == pc = "done" /\ args.fn = "_calc_marginals"

\* The input is a grid over two dimensions (it comes with two rows of limits).
ClaimIsGrid2D == DOMAIN args.limits = {0, 1}

ClaimRows == args.probs.shape[1]

ClaimCols == args.probs.shape[2]

\* The sum of the grid over one axis at index i of the other, normalized
\* against the limits row r.
ClaimMarginal(axis, i, r) ==
    LET summed ==
            IF axis = 0
            THEN RSumTo([k \in 0 .. (ClaimRows - 1) |-> args.probs.data[k][i]], ClaimRows)
            ELSE RSumTo(args.probs.data[i], ClaimCols)
        count == IF axis = 0 THEN ClaimCols ELSE ClaimRows
        span == RInt(args.limits[r][2] - args.limits[r][1])
    IN  RDiv(RDiv(RMul(summed, RInt(count)), span), TorchSum(args.probs))

\* Entry j of a distribution over one dimension, normalized against the one
\* row of limits.
ClaimNormalized(j) ==
    RDiv(RDiv(RMul(args.probs.data[0][j], RInt(ClaimCols)),
              RInt(args.limits[0][2] - args.limits[0][1])),
         TorchSum(args.probs))

\* C13: for every resolution >= 1, _calc_marginals on a 2-D resolution x
\* resolution grid returns the two marginal vectors (the sum over axis 0
\* normalized against limits[0], the sum over axis 1 against limits[1]), and
\* on a distribution over one dimension with a leading axis of size 1 it
\* returns that distribution normalized; which of the two it does depends on
\* the input being 2-D or 1-D only, not on the resolution.
C13_MarginalsByDimensionality ==
    MarginalsDone =>
        IF ClaimIsGrid2D
        THEN /\ ret.kind = "tuple"
             /\ Len(ret.items) = 2
             /\ ret.items[1].shape = <<ClaimCols>>
             /\ ret.items[2].shape = <<ClaimRows>>
             /\ \A j \in 0 .. (ClaimCols - 1) :
                    ret.items[1].data[j] = ClaimMarginal(0, j, 0)
             /\ \A i \in 0 .. (ClaimRows - 1) :
                    ret.items[2].data[i] = ClaimMarginal(1, i, 1)
        ELSE /\ ret.kind = "tensor"
             /\ ret.items[1].shape = args.probs.shape
             /\ \A j \in 0 .. (ClaimCols - 1) :
                    ret.items[1].data[0][j] = ClaimNormalized(j)

====
